---- MODULE Spec2Model ----
(***************************************************************************)
(* Model of freqtrade/optimize/__init__.py: the ticker cache synchronizer  *)
(* (download_pairs, download_backtesting_testdata,                         *)
(* load_cached_data_for_updating) and the series trimmer (trim_tickerlist).*)
(*                                                                         *)
(* A record (candle) is modelled by its first field, the timestamp in ms:  *)
(* the code reads only rec[0].  Python's None is the empty tuple <<>> and  *)
(* a present value v is <<v>>.                                             *)
(***************************************************************************)
EXTENDS Integers, Sequences, FiniteSets, TLC

VARIABLES
    files,          \* the data directory: file name -> file
    files0,         \* the data directory as it was when the run began
    tick_interval,  \* argument of the running call
    timerange,      \* argument of the running call: <<>> (None) or <<TimeRange>>
    now,            \* what arrow.utcnow() reads during the run
    dp,             \* download_pairs: its pairs argument, loop position, outcome
    sync,           \* per thread: the activation of download_backtesting_testdata
    fetchLog,       \* the calls made to exchange.get_history, in order
    trimIn,         \* trim_tickerlist: its arguments
    trimOut,        \* trim_tickerlist: <<>> before the call, <<outcome>> after
    valIn,          \* validate_backtest_data: its arguments
    valOut,         \* validate_backtest_data: <<>> before the call, <<outcome>> after
    remote,         \* the candles the exchange holds, ascending
    remote0,        \* the candles the exchange held when the run started
    overlap,        \* per thread: another activation ran while this one did
    gzfiles,        \* the data directory: file name -> the file of that name + '.gz'
    readOut         \* load_tickerdata_file: <<>> before the call, <<outcome>> after

vars == <<files, files0, tick_interval, timerange, now, dp, sync, fetchLog, trimIn, trimOut,
          valIn, valOut, remote, remote0, overlap,
          gzfiles, readOut>>

syncVars == <<files, files0, tick_interval, timerange, now, dp, sync, fetchLog>>
trimVars == <<trimIn, trimOut>>
valVars == <<valIn, valOut>>
parVars == <<remote, remote0, overlap>>
readVars == <<gzfiles, readOut>>

-----------------------------------------------------------------------------
(* Bounds of the model *)

\* longest series handed to trim_tickerlist
MaxLen == 3
\* timestamps are the multiples of 500 ms up to 500 * MaxTick
MaxTick == 3
\* date-mode values of a TimeRange, in seconds
MaxDate == 2
\* most records in a cache file before a run of download_backtesting_testdata
MaxCache == 3
\* most records in each cache file before a run of download_pairs (the runs
\* of download_backtesting_testdata it makes write longer ones)
MaxPairCache == 0
\* most records one get_history call returns
MaxFetch == 2
\* longest pairs argument of download_pairs
MaxPairs == 2
\* min_date and max_date of validate_backtest_data are 0..MaxHalfMinutes
\* half minutes after the epoch
MaxHalfMinutes == 12
\* most rows of a DataFrame handed to validate_backtest_data
MaxFrames == 2
\* clock readings are 30 days + 0..MaxNow seconds after the epoch
MaxNow == 1
\* the exchange's candles are at the multiples of 500 ms up to
\* 500 * MaxRemoteTick
MaxRemoteTick == 2
\* most records in each cache file before the pairs of two files are synced
\* side by side
MaxParCache == 1
\* most records in the cache file before one pair is synced twice
MaxSameCache == 3
\* most records in the .json and in the .json.gz file before the sync that
\* load_tickerdata_file follows
MaxReadCache == 1

-----------------------------------------------------------------------------
(* Values *)

None == <<>>
Some(v) == <<v>>

Min(a, b) == IF a < b THEN a ELSE b
Max(a, b) == IF a > b THEN a ELSE b

Timestamps == {500 * k : k \in 0..MaxTick}

\* a record: [timestamp_ms, open, high, low, close, volume], the timestamp kept
Rec(ts) == <<ts>>
Records == {Rec(ts) : ts \in Timestamps}

SeqsUpTo(S, n) == UNION {[1..k -> S] : k \in 0..n}

Ascending(s) == \A i \in 1..(Len(s) - 1) : s[i][1] <= s[i + 1][1]
StrictlyAscending(s) == \A i \in 1..(Len(s) - 1) : s[i][1] < s[i + 1][1]

\* arguments.TimeRange(starttype, stoptype, startts, stopts)
TimeRange(starttype, stoptype, startts, stopts) ==
    [starttype |-> starttype, stoptype |-> stoptype,
     startts |-> startts, stopts |-> stopts]

\* Python's list[a:b]: negative positions count from the end, both are clamped
PySliceIndex(i, n) == IF i < 0 THEN Max(i + n, 0) ELSE Min(i, n)
PySlice(s, a, b) ==
    SubSeq(s, PySliceIndex(a, Len(s)) + 1, PySliceIndex(b, Len(s)))

-----------------------------------------------------------------------------
(* trim_tickerlist *)

\* the forward scan stepping over a record at startts * 1000 as well
RECURSIVE ScanStartInclusive(_, _, _)
ScanStartInclusive(tickerlist, i, startts) ==
    IF i < Len(tickerlist) /\ tickerlist[i + 1][1] <= startts * 1000
    THEN ScanStartInclusive(tickerlist, i + 1, startts)
    ELSE i

\* the forward scan of a date-mode start (0-based index)
RECURSIVE ScanStart(_, _, _)
ScanStart(tickerlist, i, startts) ==
    IF i < Len(tickerlist) /\ tickerlist[i + 1][1] < startts * 1000
    THEN ScanStart(tickerlist, i + 1, startts)
    ELSE i

\* the backward scan of a date-mode stop; <<>> when tickerlist[stop_index-1]
\* is out of range (IndexError)
RECURSIVE ScanStop(_, _, _)
ScanStop(tickerlist, i, stopts) ==
    IF i > 0
    THEN IF i - 1 >= Len(tickerlist)
         THEN None
         ELSE IF tickerlist[i][1] > stopts * 1000
              THEN ScanStop(tickerlist, i - 1, stopts)
              ELSE Some(i)
    ELSE Some(i)

StartIndexAfterStart(tickerlist, tr) ==
    IF tr.starttype = "index" THEN tr.startts
    ELSE IF tr.starttype = "date" THEN ScanStart(tickerlist, 0, tr.startts)
    ELSE 0

StopIndexAfterStart(tickerlist, tr) ==
    IF tr.starttype = "line" THEN tr.startts ELSE Len(tickerlist)

\* a line-mode stop counting one record too few
StartIndexAfterStopOffByOne(tickerlist, tr) ==
    IF tr.stoptype = "line"
    THEN Len(tickerlist) + tr.stopts + 1
    ELSE StartIndexAfterStart(tickerlist, tr)

StartIndexAfterStop(tickerlist, tr) ==
    IF tr.stoptype = "line"
    THEN Len(tickerlist) + tr.stopts
    ELSE StartIndexAfterStart(tickerlist, tr)

StopIndexAfterStop(tickerlist, tr) ==
    IF tr.stoptype = "index" THEN Some(tr.stopts)
    ELSE IF tr.stoptype = "date"
         THEN ScanStop(tickerlist, StopIndexAfterStart(tickerlist, tr), tr.stopts)
         ELSE Some(StopIndexAfterStart(tickerlist, tr))

\* trim_tickerlist resolving the bounds of an empty list as well
trim_tickerlist_resolving_empty(tickerlist, tr) ==
    LET start_index == StartIndexAfterStop(tickerlist, tr)
        stop == StopIndexAfterStop(tickerlist, tr)
    IN  IF stop = None
        THEN [kind |-> "IndexError", out |-> <<>>, bounds |-> None]
        ELSE IF start_index > stop[1]
             THEN [kind |-> "ValueError", out |-> <<>>,
                   bounds |-> Some(<<start_index, stop[1]>>)]
             ELSE [kind |-> "return",
                   out |-> PySlice(tickerlist, start_index, stop[1]),
                   bounds |-> Some(<<start_index, stop[1]>>)]

\* the outcome of trim_tickerlist(tickerlist, tr): what it returned or raised,
\* with the resolved bounds where they were resolved
trim_tickerlist(tickerlist, tr) ==
    IF tickerlist = <<>>
    THEN [kind |-> "return", out |-> tickerlist, bounds |-> None]
    ELSE LET start_index == StartIndexAfterStop(tickerlist, tr)
             stop == StopIndexAfterStop(tickerlist, tr)
         IN  IF stop = None
             THEN [kind |-> "IndexError", out |-> <<>>, bounds |-> None]
             ELSE IF start_index > stop[1]
                  THEN [kind |-> "ValueError", out |-> <<>>,
                        bounds |-> Some(<<start_index, stop[1]>>)]
                  ELSE [kind |-> "return",
                        out |-> PySlice(tickerlist, start_index, stop[1]),
                        bounds |-> Some(<<start_index, stop[1]>>)]

Modes == {"none", "index", "line", "date"}

\* the values a side of a TimeRange takes in the model, by its mode
ModeValues(mode) ==
    IF mode = "none" THEN {0}
    ELSE IF mode = "date" THEN 0..MaxDate
    ELSE (0 - (MaxLen + 1))..(MaxLen + 1)

TrimRanges ==
    {TimeRange(m1, m2, v1, v2) :
        <<m1, m2, v1, v2>> \in
            {q \in Modes \X Modes \X ((0 - (MaxLen + 1))..(MaxLen + 1))
                               \X ((0 - (MaxLen + 1))..(MaxLen + 1)) :
                q[3] \in ModeValues(q[1]) /\ q[4] \in ModeValues(q[2])}}

TrimSeries == {s \in SeqsUpTo(Records, MaxLen) : Ascending(s)}

InitTrim ==
    /\ trimIn \in [tickerlist : TrimSeries, timerange : TrimRanges]
    /\ trimOut = None

Trim ==
    /\ trimOut = None
    /\ trimOut' = Some(trim_tickerlist(trimIn.tickerlist, trimIn.timerange))
    /\ UNCHANGED <<trimIn, syncVars, valVars, parVars, readVars>>

-----------------------------------------------------------------------------
(* The data directory, the exchange and the clock *)

\* a pair is its characters, so that pair.replace('/', '_') is computed
Pairs == {<<"E", "/", "B">>, <<"L", "/", "B">>, <<"E", "_", "B">>}

Intervals == {"1m", "5m"}

\* constants.TICKER_INTERVAL_MINUTES
TICKER_INTERVAL_MINUTES == [i \in Intervals |-> IF i = "1m" THEN 1 ELSE 5]

-----------------------------------------------------------------------------
(* validate_backtest_data *)

\* line 92: int((max_date - min_date).total_seconds() // 60 // mins), the
\* dates in seconds; // rounds towards minus infinity, as \div does
expected_frames(min_date, max_date, ticker_interval_mins) ==
    ((max_date - min_date) \div 60) \div ticker_interval_mins

\* validate_backtest_data taking a frame of exactly the expected length
\* for one with missing rows
validate_backtest_data_at_most(data, min_date, max_date, ticker_interval_mins) ==
    IF ticker_interval_mins = 0
    THEN [kind |-> "ZeroDivisionError", found_missing |-> FALSE]
    ELSE [kind |-> "return",
          found_missing |->
              \E pair \in DOMAIN data :
                  data[pair] <= expected_frames(min_date, max_date,
                                                ticker_interval_mins)]

\* lines 92-100; data is the dict as pair -> len(df)
validate_backtest_data(data, min_date, max_date, ticker_interval_mins) ==
    IF ticker_interval_mins = 0
    THEN [kind |-> "ZeroDivisionError", found_missing |-> FALSE]
    ELSE [kind |-> "return",
          found_missing |->
              \E pair \in DOMAIN data :
                  data[pair] < expected_frames(min_date, max_date,
                                               ticker_interval_mins)]

\* the dicts of pairs and frame lengths of the model
FrameCounts == UNION {[P -> 0..MaxFrames] : P \in SUBSET Pairs}

\* the datetimes of the model, in seconds
Dates == {30 * k : k \in 0..MaxHalfMinutes}

ValIdle ==
    /\ valIn = [data |-> <<>>, min_date |-> 0, max_date |-> 0,
                ticker_interval_mins |-> 1]
    /\ valOut = None

InitValidate ==
    /\ valIn \in [data : FrameCounts, min_date : Dates, max_date : Dates,
                   ticker_interval_mins :
                       {TICKER_INTERVAL_MINUTES[i] : i \in Intervals}]
    /\ valOut = None

Validate ==
    /\ valOut = None
    /\ valOut' = Some(validate_backtest_data(valIn.data, valIn.min_date,
                           valIn.max_date, valIn.ticker_interval_mins))
    /\ UNCHANGED <<valIn, syncVars, trimVars, parVars, readVars>>

\* pair.replace("/", "_")
ReplaceSlash(pair) == [i \in DOMAIN pair |-> IF pair[i] = "/" THEN "_" ELSE pair[i]]

\* a file name made of the interval alone: every pair gets the same file
FileNameWithoutPair(pair, interval) == <<<<"E", "_", "B">>, interval, "json">>

\* os.path.join(path, f'{filepair}-{tick_interval}.json'), within
\* make_testdata_path(datadir)
FileName(pair, interval) == <<ReplaceSlash(pair), interval, "json">>

FileNames == {FileName(p, i) : p \in Pairs, i \in Intervals}

\* a file: absent, present with JSON of a list of records, or present with
\* content json cannot decode
NoFile == [kind |-> "absent", data |-> <<>>]
Corrupt == [kind |-> "corrupt", data |-> <<>>]
JsonFile(data) == [kind |-> "json", data |-> data]

CacheFiles(n) ==
    {NoFile, Corrupt} \cup
    {JsonFile(s) : s \in {q \in SeqsUpTo(Records, n) : StrictlyAscending(q)}}

\* a reading of arrow.utcnow(): whole seconds and milliseconds
ThirtyDays == 30 * 24 * 60 * 60
Clock == [sec : {ThirtyDays + k : k \in 0..MaxNow}, ms : {0, 500}]

\* arrow.utcnow().shift(minutes=num_minutes).timestamp * 1000
ShiftedTimestampMs(clock, num_minutes) == (clock.sec + 60 * num_minutes) * 1000

\* int(arrow.utcnow().shift(days=-30).float_timestamp) * 1000:
\* int() truncates towards zero
DefaultSinceMs(clock) ==
    LET s == clock.sec - ThirtyDays
    IN  (IF s < 0 /\ clock.ms > 0 THEN s + 1 ELSE s) * 1000

\* Python truthiness of an Optional[int]
Truthy(since_ms) == since_ms /= None /\ since_ms[1] /= 0

-----------------------------------------------------------------------------
(* load_cached_data_for_updating *)

\* the since of a line-mode stop taken whatever the start mode is
RequestedSinceLineFirst(interval, tr, clock) ==
    IF tr = None THEN None
    ELSE IF tr[1].stoptype = "line"
         THEN Some(ShiftedTimestampMs(clock,
                   tr[1].stopts * TICKER_INTERVAL_MINUTES[interval]))
         ELSE IF tr[1].starttype = "date" THEN Some(tr[1].startts * 1000)
              ELSE None

\* lines 216-224: the since the timerange asks for
RequestedSince(interval, tr, clock) ==
    IF tr = None THEN None
    ELSE IF tr[1].starttype = "date" THEN Some(tr[1].startts * 1000)
    ELSE IF tr[1].stoptype = "line"
         THEN Some(ShiftedTimestampMs(clock,
                   tr[1].stopts * TICKER_INTERVAL_MINUTES[interval]))
         ELSE None

\* ReadCache without data.pop()
ReadCacheKeepsLast(file) ==
    IF file.kind = "json" THEN file.data ELSE <<>>

\* lines 227-235: the decoded file with its last item removed
ReadCache(file) ==
    IF file.kind = "json"
    THEN IF file.data /= <<>>
         THEN SubSeq(file.data, 1, Len(file.data) - 1)
         ELSE file.data
    ELSE <<>>

\* ChooseUpdate resuming at a requested since that is later than the cache
ChooseUpdateKeepsLaterSince(data, since_ms) ==
    IF data /= <<>>
    THEN IF Truthy(since_ms) /\ since_ms[1] < data[1][1]
         THEN [data |-> <<>>, since_ms |-> since_ms]
         ELSE IF Truthy(since_ms) /\ since_ms[1] > data[Len(data)][1]
              THEN [data |-> data, since_ms |-> since_ms]
              ELSE [data |-> data, since_ms |-> Some(data[Len(data)][1] + 1)]
    ELSE [data |-> data, since_ms |-> since_ms]

\* lines 237-247
ChooseUpdate(data, since_ms) ==
    IF data /= <<>>
    THEN IF Truthy(since_ms) /\ since_ms[1] < data[1][1]
         THEN [data |-> <<>>, since_ms |-> since_ms]
         ELSE [data |-> data, since_ms |-> Some(data[Len(data)][1] + 1)]
    ELSE [data |-> data, since_ms |-> since_ms]

\* load_cached_data_for_updating reading a file it cannot decode as no data
load_cached_data_masking_corrupt(file, interval, tr, clock) ==
    LET r == ChooseUpdate(ReadCache(file), RequestedSince(interval, tr, clock))
    IN  [err |-> "", data |-> r.data, since_ms |-> r.since_ms]

\* the outcome: err is "" when the function returns (data, since_ms)
load_cached_data_for_updating(file, interval, tr, clock) ==
    IF file.kind = "corrupt"
    THEN [err |-> "JSONDecodeError", data |-> <<>>, since_ms |-> None]
    ELSE LET r == ChooseUpdate(ReadCache(file), RequestedSince(interval, tr, clock))
         IN  [err |-> "", data |-> r.data, since_ms |-> r.since_ms]

-----------------------------------------------------------------------------
(* download_backtesting_testdata, one activation per thread *)

Threads == {"main", "worker"}

Idle == [pc |-> "idle", pair |-> <<>>, data |-> <<>>, since_ms |-> None,
         new_data |-> <<>>, err |-> ""]

SyncIdle ==
    /\ files = [f \in FileNames |-> NoFile]
    /\ files0 = files
    /\ tick_interval = "1m"
    /\ timerange = None
    /\ now = [sec |-> ThirtyDays, ms |-> 0]
    /\ dp = [pairs |-> <<>>, i |-> 1, pc |-> "returned", result |-> None,
             started |-> <<>>, handled |-> <<>>]
    /\ sync = [t \in Threads |-> Idle]
    /\ fetchLog = <<>>

\* the exchange holds nothing and no activation ran beside another
ParIdle ==
    /\ remote = <<>>
    /\ remote0 = <<>>
    /\ overlap = [t \in Threads |-> FALSE]

\* no gzip file and load_tickerdata_file not called
ReadIdle ==
    /\ gzfiles = [f \in FileNames |-> NoFile]
    /\ readOut = None

\* lines 281-282: the debug arguments are evaluated before the call;
\* data[1] does not exist in a list of one item
DebugCurrentRaises(data) == data /= <<>> /\ Len(data) < 2

\* lines 291-292: data[0] and data[-1] do not exist in an empty list
DebugNewRaises(data) == data = <<>>

\* lines 269-282
Load(t) ==
    /\ sync[t].pc = "called"
    /\ LET r == load_cached_data_for_updating(
                    files[FileName(sync[t].pair, tick_interval)],
                    tick_interval, timerange, now)
       IN  sync' = [sync EXCEPT ![t] =
               [@ EXCEPT !.data = r.data, !.since_ms = r.since_ms,
                         !.err = IF r.err /= "" THEN r.err
                                 ELSE IF DebugCurrentRaises(r.data)
                                      THEN "IndexError" ELSE "",
                         !.pc = IF r.err /= "" \/ DebugCurrentRaises(r.data)
                                THEN "raised" ELSE "loaded"]]
    /\ UNCHANGED <<files, files0, tick_interval, timerange, now, dp, fetchLog, trimVars, valVars, parVars, readVars>>

\* the since_ms argument of exchange.get_history, lines 286-288
SinceArgument(since_ms, clock) ==
    IF Truthy(since_ms) THEN since_ms[1] ELSE DefaultSinceMs(clock)

FetchCall(t) ==
    [pair |-> sync[t].pair, tick_interval |-> tick_interval,
     since_ms |-> SinceArgument(sync[t].since_ms, now)]

\* lines 285-289, get_history returning new_data
FetchReturns(t) ==
    /\ sync[t].pc = "loaded"
    /\ \E new_data \in SeqsUpTo(Records, MaxFetch) :
         /\ fetchLog' = Append(fetchLog, FetchCall(t))
         /\ sync' = [sync EXCEPT ![t] =
                 [@ EXCEPT !.data = @ \o new_data, !.new_data = new_data,
                           !.pc = "fetched"]]
    /\ UNCHANGED <<files, files0, tick_interval, timerange, now, dp, trimVars, valVars, parVars, readVars>>

\* get_history raising after the retained records were written back
FetchRaisesAfterWrite(t) ==
    /\ sync[t].pc = "loaded"
    /\ fetchLog' = Append(fetchLog, FetchCall(t))
    /\ files' = [files EXCEPT ![FileName(sync[t].pair, tick_interval)] =
                    JsonFile(sync[t].data)]
    /\ sync' = [sync EXCEPT ![t] = [@ EXCEPT !.err = "FetchError", !.pc = "raised"]]
    /\ UNCHANGED <<files0, tick_interval, timerange, now, dp, trimVars, valVars, parVars, readVars>>

\* lines 285-288, get_history raising
FetchRaises(t) ==
    /\ sync[t].pc = "loaded"
    /\ fetchLog' = Append(fetchLog, FetchCall(t))
    /\ sync' = [sync EXCEPT ![t] = [@ EXCEPT !.err = "FetchError", !.pc = "raised"]]
    /\ UNCHANGED <<files, files0, tick_interval, timerange, now, dp, trimVars, valVars, parVars, readVars>>

\* misc.file_dump_json(filename, data): the file fully overwritten
file_dump_json(fs, filename, data) == [fs EXCEPT ![filename] = JsonFile(data)]

\* lines 291-294, file_dump_json returning
Persist(t) ==
    /\ sync[t].pc = "fetched"
    /\ IF DebugNewRaises(sync[t].data)
       THEN /\ sync' = [sync EXCEPT ![t] =
                    [@ EXCEPT !.err = "IndexError", !.pc = "raised"]]
            /\ UNCHANGED files
       ELSE /\ files' = file_dump_json(files,
                            FileName(sync[t].pair, tick_interval), sync[t].data)
            /\ sync' = [sync EXCEPT ![t] = [@ EXCEPT !.pc = "done"]]
    /\ UNCHANGED <<files0, tick_interval, timerange, now, dp, fetchLog, trimVars, valVars, parVars, readVars>>

\* lines 291-294, file_dump_json raising
PersistRaises(t) ==
    /\ sync[t].pc = "fetched"
    /\ ~DebugNewRaises(sync[t].data)
    /\ sync' = [sync EXCEPT ![t] = [@ EXCEPT !.err = "OSError", !.pc = "raised"]]
    /\ UNCHANGED <<files, files0, tick_interval, timerange, now, dp, fetchLog, trimVars, valVars, parVars, readVars>>

-----------------------------------------------------------------------------
(* download_pairs, run by thread "main" *)

\* line 190-196: the loop calls download_backtesting_testdata for the next pair
DpCall ==
    /\ dp.pc = "loop"
    /\ dp.i <= Len(dp.pairs)
    /\ sync["main"].pc = "idle"
    /\ sync' = [sync EXCEPT !["main"] =
            [Idle EXCEPT !.pc = "called", !.pair = dp.pairs[dp.i]]]
    /\ dp' = [dp EXCEPT !.started = Append(@, dp.pairs[dp.i])]
    /\ UNCHANGED <<files, files0, tick_interval, timerange, now, fetchLog, trimVars, valVars, parVars, readVars>>

\* the call returned: the loop moves to the next pair
DpContinue ==
    /\ dp.pc = "loop"
    /\ sync["main"].pc = "done"
    /\ sync' = [sync EXCEPT !["main"] = Idle]
    /\ dp' = [dp EXCEPT !.i = @ + 1]
    /\ UNCHANGED <<files, files0, tick_interval, timerange, now, fetchLog, trimVars, valVars, parVars, readVars>>

\* lines 197-203: except BaseException: log, return False
DpExcept ==
    /\ dp.pc = "loop"
    /\ sync["main"].pc = "raised"
    /\ dp' = [dp EXCEPT !.pc = "returned", !.result = Some(FALSE),
                        !.handled = Append(@, [i |-> dp.i, err |-> sync["main"].err])]
    /\ sync' = [sync EXCEPT !["main"] = Idle]
    /\ UNCHANGED <<files, files0, tick_interval, timerange, now, fetchLog, trimVars, valVars, parVars, readVars>>

\* line 204: the loop is over, return True
DpReturn ==
    /\ dp.pc = "loop"
    /\ dp.i > Len(dp.pairs)
    /\ sync["main"].pc = "idle"
    /\ dp' = [dp EXCEPT !.pc = "returned", !.result = Some(TRUE)]
    /\ UNCHANGED <<files, files0, tick_interval, timerange, now, sync, fetchLog, trimVars, valVars, parVars, readVars>>

\* the timeranges download_pairs is called with
SyncRanges ==
    {None, Some(TimeRange("none", "none", 0, 0)),
     Some(TimeRange("index", "index", 0, 1)),
     Some(TimeRange("none", "line", 0, 0 - 8640))}
    \cup {Some(TimeRange("date", "none", d, 0)) : d \in 0..MaxDate}

DpStart(pairs) ==
    /\ dp = [pairs |-> pairs, i |-> 1, pc |-> "loop", result |-> None,
             started |-> <<>>, handled |-> <<>>]
    /\ sync = [t \in Threads |-> Idle]
    /\ fetchLog = <<>>
    /\ tick_interval \in Intervals
    /\ timerange \in SyncRanges
    /\ now \in Clock

TrimIdle ==
    /\ trimIn = [tickerlist |-> <<>>, timerange |-> TimeRange("none", "none", 0, 0)]
    /\ trimOut = None

\* download_pairs called with any pairs, over any data directory
Init ==
    /\ \E pairs \in SeqsUpTo(Pairs, MaxPairs) : DpStart(pairs)
    /\ files \in {fs \in [FileNames -> CacheFiles(MaxPairCache)] :
                    \A f \in FileNames : f[2] /= tick_interval => fs[f] = NoFile}
    /\ files0 = files
    /\ TrimIdle
    /\ ValIdle
    /\ ParIdle
    /\ ReadIdle

Next ==
    \/ DpCall
    \/ Load("main")
    \/ FetchReturns("main")
    \/ FetchRaises("main")
    \/ Persist("main")
    \/ PersistRaises("main")
    \/ DpContinue
    \/ DpExcept
    \/ DpReturn

Spec == Init /\ [][Next]_vars

\* download_pairs called with one pair: one run of download_backtesting_testdata
InitSync ==
    /\ \E p \in Pairs : DpStart(<<p>>)
    /\ \E c \in CacheFiles(MaxCache) :
         files = [f \in FileNames |->
                    IF f = FileName(dp.pairs[1], tick_interval) THEN c ELSE NoFile]
    /\ files0 = files
    /\ TrimIdle
    /\ ValIdle
    /\ ParIdle
    /\ ReadIdle

SpecSync == InitSync /\ [][Next]_vars

\* the values of a side of the timerange load_cached_data_for_updating is
\* given: a line-mode stop counts candles back from now
LoadStartValues(mode) ==
    IF mode = "date" THEN 0..MaxDate
    ELSE IF mode = "none" THEN {0} ELSE {0, 1}

LoadStopValues(mode) ==
    IF mode = "date" THEN 0..MaxDate
    ELSE IF mode = "none" THEN {0}
    ELSE IF mode = "line" THEN {0 - 8640, 0 - 8641} ELSE {0, 1}

LoadRanges ==
    {None} \cup
    UNION {{Some(TimeRange(m[1], m[2], v[1], v[2])) :
                v \in LoadStartValues(m[1]) \X LoadStopValues(m[2])} :
           m \in Modes \X Modes}

\* download_backtesting_testdata called for one pair with any timerange
InitLoad ==
    /\ \E p \in Pairs :
         dp = [pairs |-> <<p>>, i |-> 1, pc |-> "loop", result |-> None,
               started |-> <<>>, handled |-> <<>>]
    /\ sync = [t \in Threads |-> Idle]
    /\ fetchLog = <<>>
    /\ tick_interval \in Intervals
    /\ timerange \in LoadRanges
    /\ now \in Clock
    /\ \E c \in CacheFiles(MaxCache) :
         files = [f \in FileNames |->
                    IF f = FileName(dp.pairs[1], tick_interval) THEN c ELSE NoFile]
    /\ files0 = files
    /\ TrimIdle
    /\ ValIdle
    /\ ParIdle
    /\ ReadIdle

\* the run up to the return of load_cached_data_for_updating (line 282)
NextLoad ==
    \/ DpCall
    \/ Load("main")

SpecLoad == InitLoad /\ [][NextLoad]_vars

-----------------------------------------------------------------------------
(* Two activations of download_backtesting_testdata, one per thread, against
   an exchange that holds a growing series of candles *)

\* pairs as the exchange names them: base/quote
SlashPairs == {p \in Pairs : \E i \in DOMAIN p : p[i] = "/"}

ParTimestamps == {500 * k : k \in 0..MaxRemoteTick}

ParSeries ==
    {s \in SeqsUpTo({Rec(ts) : ts \in ParTimestamps}, MaxRemoteTick + 1) :
        StrictlyAscending(s)}

ParCacheFiles(n) ==
    {NoFile, Corrupt} \cup {JsonFile(s) : s \in {q \in ParSeries : Len(q) <= n}}

\* the activation of thread t is between its call and its return or raise
InFlight(t) == sync[t].pc \in {"called", "loaded", "fetched"}

\* download_backtesting_testdata is called on thread t (lines 250-254)
SyncCall(t) ==
    /\ sync[t].pc = "idle"
    /\ sync' = [sync EXCEPT ![t] = [@ EXCEPT !.pc = "called"]]
    /\ overlap' = [u \in Threads |->
                      \/ overlap[u]
                      \/ /\ u = t \/ InFlight(u)
                         /\ \E v \in Threads \ {t} : InFlight(v)]
    /\ UNCHANGED <<files, files0, tick_interval, timerange, now, dp, fetchLog,
                   remote, remote0, trimVars, valVars, readVars>>

\* exchange.get_history(pair, tick_interval, since_ms): every candle the
\* exchange holds from since_ms on, ascending
RemoteFrom(since_ms) == SelectSeq(remote, LAMBDA r : r[1] >= since_ms)

\* lines 285-289, get_history returning the exchange's candles
FetchFromRemote(t) ==
    /\ sync[t].pc = "loaded"
    /\ LET new_data == RemoteFrom(FetchCall(t).since_ms)
       IN  /\ fetchLog' = Append(fetchLog, FetchCall(t))
           /\ sync' = [sync EXCEPT ![t] =
                   [@ EXCEPT !.data = @ \o new_data, !.new_data = new_data,
                             !.pc = "fetched"]]
    /\ UNCHANGED <<files, files0, tick_interval, timerange, now, dp, trimVars, valVars, parVars, readVars>>

\* the exchange closes a newer candle
RemoteGrows ==
    /\ \E ts \in ParTimestamps :
         /\ remote /= <<>> => ts > remote[Len(remote)][1]
         /\ remote' = Append(remote, Rec(ts))
    /\ UNCHANGED <<syncVars, remote0, overlap, trimVars, valVars, readVars>>

\* a second passes between two readings of arrow.utcnow()
Tick ==
    /\ now.sec < ThirtyDays + MaxNow
    /\ now' = [now EXCEPT !.sec = @ + 1]
    /\ UNCHANGED <<files, files0, tick_interval, timerange, dp, sync, fetchLog,
                   trimVars, valVars, parVars, readVars>>

\* each thread is to sync the pair it holds with the defaults (tick_interval
\* '5m', timerange None) over cache files of at most n records
ParStart(n) ==
    /\ dp = [pairs |-> <<>>, i |-> 1, pc |-> "returned", result |-> None,
             started |-> <<>>, handled |-> <<>>]
    /\ fetchLog = <<>>
    /\ tick_interval = "5m"
    /\ timerange = None
    /\ now = [sec |-> ThirtyDays, ms |-> 0]
    /\ files \in {fs \in [FileNames -> ParCacheFiles(n)] :
                    \A f \in FileNames :
                        (\A t \in Threads : f /= FileName(sync[t].pair, tick_interval))
                        => fs[f] = NoFile}
    /\ files0 = files
    /\ remote \in ParSeries
    /\ remote0 = remote
    /\ overlap = [t \in Threads |-> FALSE]
    /\ TrimIdle
    /\ ValIdle
    /\ ReadIdle

\* the two threads sync two different pairs: E/B on main, another on worker
InitPar ==
    /\ \E q \in SlashPairs \ {<<"E", "/", "B">>} :
         sync = [t \in Threads |->
                    [Idle EXCEPT !.pair = IF t = "main" THEN <<"E", "/", "B">> ELSE q]]
    /\ ParStart(MaxParCache)

\* the steps of the two activations in any order, the exchange closing
\* candles and the clock advancing meanwhile
NextPar ==
    \/ \E t \in Threads : SyncCall(t)
    \/ \E t \in Threads : Load(t)
    \/ \E t \in Threads : FetchFromRemote(t)
    \/ \E t \in Threads : FetchRaises(t)
    \/ \E t \in Threads : Persist(t)
    \/ \E t \in Threads : PersistRaises(t)
    \/ RemoteGrows
    \/ Tick

SpecPar == InitPar /\ [][NextPar]_vars

\* the two threads sync the same pair
InitSame ==
    /\ \E p \in SlashPairs : sync = [t \in Threads |-> [Idle EXCEPT !.pair = p]]
    /\ ParStart(MaxSameCache)

SpecSame == InitSame /\ [][NextPar]_vars

-----------------------------------------------------------------------------
(* load_tickerdata_file after a run of download_backtesting_testdata *)

\* lines 111-131: the outcome of load_tickerdata_file over the data directory
\* (fs: the .json files, gz: the .json.gz files); kind is "None" where the
\* function returns None, otherwise what it returned (out) or raised
load_tickerdata_file(fs, gz, pair, ticker_interval, tr) ==
    LET file == FileName(pair, ticker_interval)
        found == IF gz[file].kind /= "absent" THEN gz[file] ELSE fs[file]
    IN  IF found.kind = "absent"
        THEN [kind |-> "None", out |-> <<>>]
        ELSE IF found.kind = "corrupt"
             THEN [kind |-> "JSONDecodeError", out |-> <<>>]
             ELSE IF tr /= None
                  THEN LET r == trim_tickerlist(found.data, tr[1])
                       IN  [kind |-> r.kind, out |-> r.out]
                  ELSE [kind |-> "return", out |-> found.data]

\* the timeranges load_tickerdata_file is called with
ReadRanges ==
    {None, Some(TimeRange("index", "none", 1, 0)),
     Some(TimeRange("none", "line", 0, 0 - 1))}

\* load_tickerdata_file(datadir, pair, ticker_interval, timerange) is called
\* for the directory the sync writes to
ReadTickerdata ==
    /\ readOut = None
    /\ \E pair \in Pairs, tr \in ReadRanges :
         readOut' = Some([pair |-> pair, ticker_interval |-> tick_interval,
                          timerange |-> tr,
                          outcome |-> load_tickerdata_file(files, gzfiles, pair,
                                                           tick_interval, tr)])
    /\ UNCHANGED <<gzfiles, syncVars, trimVars, valVars, parVars>>

\* one sync of a pair with no timerange over a data directory that holds,
\* for the pair and interval, any of a .json file and a .json.gz file
InitRead ==
    /\ \E p \in Pairs : sync = [t \in Threads |-> [Idle EXCEPT !.pair = p]]
    /\ dp = [pairs |-> <<>>, i |-> 1, pc |-> "returned", result |-> None,
             started |-> <<>>, handled |-> <<>>]
    /\ fetchLog = <<>>
    /\ tick_interval \in Intervals
    /\ timerange = None
    /\ now = [sec |-> ThirtyDays, ms |-> 0]
    /\ \E c \in CacheFiles(MaxReadCache) :
         files = [f \in FileNames |->
                    IF f = FileName(sync["main"].pair, tick_interval)
                    THEN c ELSE NoFile]
    /\ files0 = files
    /\ \E z \in CacheFiles(MaxReadCache) :
         gzfiles = [f \in FileNames |->
                      IF f = FileName(sync["main"].pair, tick_interval)
                      THEN z ELSE NoFile]
    /\ readOut = None
    /\ ParIdle
    /\ TrimIdle
    /\ ValIdle

NextRead ==
    \/ SyncCall("main")
    \/ Load("main")
    \/ FetchReturns("main")
    \/ FetchRaises("main")
    \/ Persist("main")
    \/ PersistRaises("main")
    \/ ReadTickerdata

SpecRead == InitRead /\ [][NextRead]_vars

SpecTrimInit ==
    /\ InitTrim
    /\ SyncIdle
    /\ ValIdle
    /\ ParIdle
    /\ ReadIdle

TrimNext == Trim

SpecTrim == SpecTrimInit /\ [][TrimNext]_vars

\* validate_backtest_data called with any dict, dates and interval
SpecValidateInit ==
    /\ InitValidate
    /\ SyncIdle
    /\ TrimIdle
    /\ ParIdle
    /\ ReadIdle

ValidateNext == Validate

SpecValidate == SpecValidateInit /\ [][ValidateNext]_vars

-----------------------------------------------------------------------------
(* Properties of download_pairs, under Spec *)

\* C1: in download_pairs, when the sync of a pair fails because get_history
\* raises, that pair is skipped and every later pair is still synchronized:
\* once download_pairs has returned with no failure other than fetch failures,
\* download_backtesting_testdata was called for every pair of the list.
C1_FetchFailureSkipsOnlyThatPair ==
    (/\ dp.pc = "returned"
     /\ \A k \in 1..Len(dp.handled) : dp.handled[k].err = "FetchError")
    => dp.started = dp.pairs

\* C6: only a fetch failure is turned into a logged skip / False result by the
\* per-pair loop; a persist failure or any other error propagates to the
\* caller of download_pairs.
C6_OnlyFetchFailureIsHandled ==
    \A k \in 1..Len(dp.handled) : dp.handled[k].err = "FetchError"

-----------------------------------------------------------------------------
(* Properties of one run of download_backtesting_testdata, under SpecSync *)

T == sync["main"]
SyncFile == FileName(dp.pairs[1], tick_interval)
Cached0 == files0[SyncFile]
Requested == RequestedSince(tick_interval, timerange, now)

\* all but the last record of the cache file the run began with
Retained0 == SubSeq(Cached0.data, 1, Len(Cached0.data) - 1)

\* load_cached_data_for_updating has returned and get_history is not yet called
LoadReturned ==
    \/ T.pc = "loaded"
    \/ T.pc = "raised" /\ T.err = "IndexError" /\ fetchLog = <<>>

\* the fetched records are ascending and all later than the last retained one
FetchedLater ==
    /\ StrictlyAscending(T.new_data)
    /\ (Retained0 /= <<>> /\ T.new_data /= <<>>)
       => T.new_data[1][1] > Retained0[Len(Retained0)][1]

\* C2: for every cache file of n >= 1 ascending records and every fetch result
\* of m >= 0 ascending records later than the last retained record, the sync
\* completes and leaves the file holding the first n - 1 cached records
\* followed by the m fetched ones, ascending, without duplicate timestamps.
C2_SyncAppendsFetched ==
    (/\ Cached0.kind = "json"
     /\ Len(Cached0.data) >= 1
     /\ Requested = None)
    => /\ T.err /= "IndexError"
       /\ (T.pc = "done" /\ FetchedLater)
          => /\ files[SyncFile] = JsonFile(Retained0 \o T.new_data)
             /\ StrictlyAscending(files[SyncFile].data)

C3_Pre ==
    /\ LoadReturned
    /\ Cached0.kind = "json"
    /\ Len(Cached0.data) >= 1
    /\ Requested = None

\* C3 (as amended): given a cache file [r1..rn] and no requested since,
\* load_cached_data_for_updating drops rn and returns [r1..r(n-1)]; for n >= 2
\* it returns since_ms = r(n-1).timestamp + 1, and for n = 1 (nothing is
\* retained) it returns since_ms unset.
C3_ResumeAfterLastRetained ==
    C3_Pre
    => LET n == Len(Cached0.data)
       IN  /\ T.data = Retained0
           /\ IF n >= 2
              THEN T.since_ms = Some(Cached0.data[n - 1][1] + 1)
              ELSE T.since_ms = None

\* C3 (as stated): for any n >= 1 the returned since_ms is set, to
\* r(n-1).timestamp + 1.
C3_ResumeSetForEveryN ==
    C3_Pre
    => LET n == Len(Cached0.data)
       IN  /\ T.data = Retained0
           /\ T.since_ms /= None
           /\ n >= 2 => T.since_ms = Some(Cached0.data[n - 1][1] + 1)

C3_Witness ==
    /\ C3_Pre
    /\ Len(Cached0.data) = 3
    /\ T.since_ms = Some(Cached0.data[2][1] + 1)

\* C4: when the retained cache is non-empty and the requested since_ms is
\* earlier than its first timestamp (since_ms = 0 included),
\* load_cached_data_for_updating returns an empty series and the requested
\* since_ms.
C4_EarlierSinceRefetches ==
    (/\ LoadReturned
     /\ Cached0.kind = "json"
     /\ Retained0 /= <<>>
     /\ Requested /= None
     /\ Requested[1] < Retained0[1][1])
    => /\ T.data = <<>>
       /\ T.since_ms = Requested

\* C5: with no cache file and no requested since, get_history is called once
\* with since = 30 days before now (within a second), and whatever it returns,
\* an empty list included, is what the run persists.
C5_NoCacheFetchesDefaultAndPersists ==
    (/\ Cached0.kind = "absent"
     /\ Requested = None)
    => /\ T.pc \in {"fetched", "done"}
          => /\ Len(fetchLog) = 1
             /\ \E d \in {0 - 1, 0, 1} :
                  fetchLog[1].since_ms = (now.sec - ThirtyDays + d) * 1000
       /\ T.err /= "IndexError"
       /\ T.pc = "done" => files[SyncFile] = JsonFile(T.new_data)

\* C7: when the cache file exists and cannot be decoded, the run ends in the
\* decode error: it never goes on as with an empty cache, never calls
\* get_history and leaves every file as it was.
C7_CorruptCacheIsFatal ==
    Cached0.kind = "corrupt"
    => /\ T.pc \in {"idle", "called", "raised"}
       /\ T.pc = "raised" => T.err = "JSONDecodeError"
       /\ fetchLog = <<>>
       /\ files = files0
       /\ dp.pc = "returned"
          => /\ dp.result = Some(FALSE)
             /\ dp.handled = <<[i |-> 1, err |-> "JSONDecodeError"]>>

C7_Witness ==
    /\ Cached0.kind = "corrupt"
    /\ T.pc = "raised"
    /\ T.err = "JSONDecodeError"

-----------------------------------------------------------------------------
(* Properties of trim_tickerlist, under SpecTrim *)

S == trimIn.tickerlist
Range == trimIn.timerange
Out == trimOut[1]

\* the records of s at the 0-based positions i with a <= i < b
HalfOpen(s, a, b) == SubSeq(s, Max(a, 0) + 1, Min(b, Len(s)))

\* the 0-based position in S at which the returned slice begins
SliceStart == PySliceIndex(Out.bounds[1][1], Len(S))

\* the returned records all have timestamp >= t0 * 1000, they are the records
\* of S from SliceStart on, and the record of S just before them, if any, has
\* timestamp < t0 * 1000
DateStartRespected ==
    /\ \A i \in 1..Len(Out.out) : Out.out[i][1] >= Range.startts * 1000
    /\ Out.out = SubSeq(S, SliceStart + 1, SliceStart + Len(Out.out))
    /\ SliceStart >= 1 => S[SliceStart][1] < Range.startts * 1000

C8_Pre ==
    /\ trimOut /= None
    /\ S /= <<>>
    /\ Range.starttype = "date"
    /\ Out.kind = "return"

\* C8 (as amended): for every non-empty ascending series and every TimeRange
\* with a date-mode start t0 and a stop mode other than line (none, index or
\* date) for which trim_tickerlist returns a slice, every returned record has
\* timestamp >= t0 * 1000 and the record just before the slice, if any, has
\* timestamp < t0 * 1000.
C8_DateStartUnlessLineStop ==
    (C8_Pre /\ Range.stoptype /= "line") => DateStartRespected

\* C8 (as stated): the same for any stop mode, line included; stated for the
\* series without duplicate timestamps.
C8_DateStartAnyStop ==
    (C8_Pre /\ StrictlyAscending(S)) => DateStartRespected

C8_Witness ==
    /\ C8_Pre
    /\ Range.stoptype = "date"
    /\ SliceStart = 1
    /\ Len(Out.out) = 2
    /\ S[2][1] = Range.startts * 1000

\* C9: for every series of n records and every k in 1..n, trim_tickerlist
\* with start mode none, stop mode line and stop value -k returns the last k
\* records of the series, in order.
C9_LastKRecords ==
    (/\ trimOut /= None
     /\ Range.starttype = "none"
     /\ Range.stoptype = "line"
     /\ 0 - Range.stopts \in 1..Len(S))
    => /\ Out.kind = "return"
       /\ Len(Out.out) = 0 - Range.stopts
       /\ \A i \in 1..Len(Out.out) :
            Out.out[i] = S[Len(S) + Range.stopts + i]

C9_Witness ==
    /\ trimOut /= None
    /\ Range.starttype = "none"
    /\ Range.stoptype = "line"
    /\ Range.stopts = 0 - 2
    /\ Len(S) = 3
    /\ Out.out = <<S[2], S[3]>>

\* C10: for a non-empty series trim_tickerlist fails exactly when the
\* resolved start_index is greater than the resolved stop_index, and whenever
\* start_index <= stop_index it returns the half-open slice
\* [start_index, stop_index) without error.  (The slice is compared where
\* start_index >= 0; a negative start_index counts from the end in Python.)
C10_ErrorIffInverted ==
    (trimOut /= None /\ S /= <<>>)
    => /\ Out.kind /= "return"
          => /\ Out.kind = "ValueError"
             /\ Out.bounds /= None
             /\ Out.bounds[1][1] > Out.bounds[1][2]
       /\ Out.kind = "return"
          => /\ Out.bounds /= None
             /\ Out.bounds[1][1] <= Out.bounds[1][2]
             /\ Out.bounds[1][1] >= 0
                => Out.out = HalfOpen(S, Out.bounds[1][1], Out.bounds[1][2])

\* what the resolved bounds of an empty series would be
EmptyStart == StartIndexAfterStop(<<>>, Range)
EmptyStop == StopIndexAfterStop(<<>>, Range)

\* C11: trim_tickerlist applied to an empty series returns the empty series
\* for every TimeRange, whatever the modes and values of its two sides, the
\* ranges whose bounds would be inverted or out of range included; it raises
\* nothing and resolves no bound.
C11_EmptyInEmptyOut ==
    (trimOut /= None /\ S = <<>>)
    => /\ Out.kind = "return"
       /\ Out.out = <<>>
       /\ Out.bounds = None

\* an empty series trimmed with a range whose bounds would be inverted
C11_Witness ==
    /\ trimOut /= None
    /\ S = <<>>
    /\ Range.starttype = "index"
    /\ Range.stoptype = "index"
    /\ Range.startts > Range.stopts
    /\ EmptyStop /= None
    /\ EmptyStart > EmptyStop[1]
    /\ Out.kind = "return"
    /\ Out.out = <<>>

\* the last k records of s, all of s when it has fewer
LastRecords(s, k) == SubSeq(s, Len(s) - Min(k, Len(s)) + 1, Len(s))

\* C20: for a series of n >= 1 records, start mode none, stop mode line and
\* stop value -k with k >= 1, trim_tickerlist returns without error the last
\* min(k, n) records: the whole series when k > n, never fewer.
C20_LastMinKN ==
    (/\ trimOut /= None
     /\ S /= <<>>
     /\ Range.starttype = "none"
     /\ Range.stoptype = "line"
     /\ 0 - Range.stopts >= 1)
    => /\ Out.kind = "return"
       /\ Out.out = LastRecords(S, 0 - Range.stopts)

-----------------------------------------------------------------------------
(* Properties of validate_backtest_data, under SpecValidate *)

\* floor((max_date - min_date) in minutes / interval_minutes): the integer e
\* with e * interval minutes <= max_date - min_date < (e + 1) * interval minutes
ExpectedCount ==
    LET span == valIn.max_date - valIn.min_date
        unit == 60 * valIn.ticker_interval_mins
    IN  CHOOSE e \in (0 - MaxHalfMinutes)..MaxHalfMinutes :
            e * unit <= span /\ span < (e + 1) * unit

\* C12: validate_backtest_data never raises, and it returns true if and only
\* if at least one pair's record count is strictly less than
\* expected_count = floor(minutes between min_date and max_date /
\* interval_minutes); it returns false when every pair has at least
\* expected_count records.
C12_MissingIffBelowExpected ==
    valOut /= None
    => /\ valOut[1].kind = "return"
       /\ valOut[1].found_missing
          <=> \E pair \in DOMAIN valIn.data : valIn.data[pair] < ExpectedCount

\* one pair one record short of a positive expected count, another pair at it,
\* over a span that is not a whole number of intervals
C12_Witness ==
    /\ valOut /= None
    /\ valOut[1].found_missing
    /\ valIn.ticker_interval_mins = 5
    /\ valIn.max_date - valIn.min_date = 330
    /\ ExpectedCount = 1
    /\ \E p, q \in DOMAIN valIn.data :
         valIn.data[p] = 0 /\ valIn.data[q] = 1

-----------------------------------------------------------------------------
(* Properties of load_cached_data_for_updating, under SpecLoad *)

\* load_cached_data_for_updating has returned for a run that found no file
C14_Pre ==
    /\ LoadReturned
    /\ Cached0.kind = "absent"

\* C14 (as amended): when no cache file exists, load_cached_data_for_updating
\* returns an empty series together with a since that is the date-mode start
\* timestamp in milliseconds when the range has a date-mode start; that is
\* the clock's whole second shifted by stop value * interval minutes, in
\* milliseconds, when the start mode is none, index or line and the stop mode
\* is line; and that is unset when no range is given or the start mode is
\* none, index or line and the stop mode is none, index or date.
C14_NoCacheSinceFromRange ==
    C14_Pre
    => /\ T.data = <<>>
       /\ T.since_ms =
            IF timerange = None THEN None
            ELSE IF timerange[1].starttype = "date"
                 THEN Some(timerange[1].startts * 1000)
                 ELSE IF timerange[1].stoptype = "line"
                      THEN Some((now.sec + 60 * timerange[1].stopts
                                    * (IF tick_interval = "1m" THEN 1 ELSE 5))
                                * 1000)
                      ELSE None

\* C14 (as stated): the since is the date-mode start timestamp in milliseconds
\* for a date-mode start and unset for every other range, a line-mode stop
\* included.
C14_NoCacheSinceUnsetUnlessDateStart ==
    C14_Pre
    => /\ T.data = <<>>
       /\ T.since_ms =
            IF timerange /= None /\ timerange[1].starttype = "date"
            THEN Some(timerange[1].startts * 1000)
            ELSE None

\* no file, a date-mode start with a line-mode stop: the start decides
C14_Witness ==
    /\ C14_Pre
    /\ timerange /= None
    /\ timerange[1].starttype = "date"
    /\ timerange[1].stoptype = "line"
    /\ timerange[1].startts = 2
    /\ T.pc = "loaded"
    /\ T.since_ms = Some(2000)

C15_Pre ==
    /\ LoadReturned
    /\ Cached0.kind = "json"
    /\ Retained0 /= <<>>
    /\ Requested /= None
    /\ Requested[1] >= Retained0[1][1]

\* C15: when the retained cache (the file's records without the last) is
\* non-empty and the requested since_ms is not earlier than the cache's first
\* timestamp, load_cached_data_for_updating keeps the whole retained series
\* and returns since_ms = last retained timestamp + 1, whatever the requested
\* since_ms was, also when it is later than the last retained timestamp.
C15_ResumeIgnoresRequestedSince ==
    C15_Pre
    => /\ T.data = Retained0
       /\ T.since_ms = Some(Retained0[Len(Retained0)][1] + 1)

\* a requested since later than the last retained timestamp
C15_Witness ==
    /\ C15_Pre
    /\ Len(Retained0) = 2
    /\ Requested[1] > Retained0[2][1]
    /\ T.pc = "loaded"
    /\ T.since_ms = Some(Retained0[2][1] + 1)

-----------------------------------------------------------------------------
(* Frame of a failed fetch, under SpecSync *)

\* C17: in a sync the file is written only after get_history has returned;
\* when get_history raises, the pair's cache file (and every other file) is
\* left exactly as it was before the sync, the last cached record, dropped
\* only in memory, included.
C17_FetchFailureLeavesFile ==
    /\ (T.pc = "raised" /\ T.err = "FetchError") => files = files0
    /\ (dp.handled /= <<>> /\ dp.handled[1].err = "FetchError") => files = files0
    /\ files /= files0
       => /\ Len(fetchLog) = 1
          /\ T.pc \in {"done", "idle"}
          /\ dp.handled = <<>>

\* get_history raised after a cache of three records was loaded: two are held
\* in memory, the file still has the three
C17_Witness ==
    /\ T.pc = "raised"
    /\ T.err = "FetchError"
    /\ Cached0.kind = "json"
    /\ Len(Cached0.data) = 3
    /\ Len(T.data) = 2
    /\ files[SyncFile] = Cached0

-----------------------------------------------------------------------------
(* Properties of two activations side by side, under SpecPar *)

\* the cache file of the pair thread t syncs
ParFile(t) == FileName(sync[t].pair, tick_interval)

\* what load_cached_data_for_updating returns for thread t when no other
\* activation has written: it reads the file the run began with
SoloLoad(t) ==
    load_cached_data_for_updating(files0[ParFile(t)], tick_interval, timerange, now)

\* the file of thread t's pair when thread t runs alone and fetches what it
\* fetched: rewritten once the activation is through, untouched before
SoloFile(t) ==
    IF sync[t].pc = "done"
    THEN JsonFile(SoloLoad(t).data \o sync[t].new_data)
    ELSE files0[ParFile(t)]

-----------------------------------------------------------------------------
(* Properties of two activations for one pair, under SpecSame *)

\* the cache file of the pair both threads sync
SameFile == FileName(sync["main"].pair, tick_interval)

\* the two activations ran strictly one after the other (or one only ran)
NoOverlap == \A t \in Threads : ~overlap[t]

\* record r is in the series s
InSeries(r, s) == \E i \in DOMAIN s : s[i] = r

\* a lost update: both activations loaded the file the run began with, both
\* persisted, and a candle one of them fetched and persisted is no longer in
\* the file
C16_LostUpdate ==
    /\ \A t \in Threads : sync[t].pc = "done" /\ overlap[t]
    /\ \E t \in Threads :
         /\ files[SameFile] = JsonFile(sync[t].data)
         /\ \E u \in Threads \ {t} :
              \E i \in DOMAIN sync[u].new_data :
                  ~InSeries(sync[u].new_data[i], files[SameFile].data)

\* C16: the read-modify-write of a pair's cache file is not atomic: the sync
\* that persists last fully overwrites the file (the file is the series of
\* one activation, never a merge of the two), so that candles fetched and
\* persisted only by the other sync are lost when both loaded before either
\* persisted; when the two syncs run strictly one after the other no candle
\* that a sync fetched and persisted is lost.
C16_LossOnlyWhenOverlapping ==
    /\ (\E t \in Threads : sync[t].pc = "done")
       => \E t \in Threads :
            sync[t].pc = "done" /\ files[SameFile] = JsonFile(sync[t].data)
    /\ NoOverlap
       => \A t \in Threads :
            sync[t].pc = "done"
            => \A i \in DOMAIN sync[t].new_data :
                   /\ files[SameFile].kind = "json"
                   /\ InSeries(sync[t].new_data[i], files[SameFile].data)

\* the exchange held every record of the cache file when the run started; it
\* only gains candles, and the file only gains candles fetched from it
RemoteHoldsCache ==
    files0[SameFile].kind = "json"
    => \A i \in DOMAIN files0[SameFile].data :
           InSeries(files0[SameFile].data[i], remote0)

\* C18: against an exchange that holds every cached record and returns all
\* its candles with timestamp >= since in ascending order, every successful
\* sync of a sequence of syncs of a pair (no timerange) persists a strictly
\* ascending series without duplicates that still contains every record that
\* was in the cache file before that sync, for every cache of n >= 1 records.
C18_SyncKeepsCachedRecords ==
    [][\A t \in Threads :
          (/\ sync[t].pc = "fetched"
           /\ sync'[t].pc = "done"
           /\ NoOverlap
           /\ files[SameFile].kind = "json"
           /\ Len(files[SameFile].data) >= 1
           /\ RemoteHoldsCache)
          => /\ StrictlyAscending(files'[SameFile].data)
             /\ \A i \in DOMAIN files[SameFile].data :
                    InSeries(files[SameFile].data[i], files'[SameFile].data)]_vars

\* C19: read after write: after download_backtesting_testdata returned for a
\* pair and interval, load_tickerdata_file for that pair and interval with no
\* timerange returns exactly the series the sync persisted, whatever the data
\* directory held before (no file, a .json file, a .json.gz file, or both).
C19_ReadAfterWrite ==
    [][(/\ sync["main"].pc = "done"
        /\ readOut = None
        /\ readOut' /= None
        /\ readOut'[1].pair = sync["main"].pair
        /\ readOut'[1].timerange = None)
       => readOut'[1].outcome = [kind |-> "return", out |-> sync["main"].data]]_vars

====
